---- MODULE Spec2Model ----
(***************************************************************************)
(* Deposit lifecycle, approval workflow and member ledger of the           *)
(* money_backend service (NestJS + Prisma).                                *)
(*                                                                         *)
(* Every request handler is a sequence of awaited database calls.  The     *)
(* handlers that check a row and later write it are modelled in two        *)
(* steps: the read step (the findUnique calls and the checks that throw)   *)
(* and the write step (the prisma.$transaction / delete call), so that     *)
(* other requests can run between a handler's check and its write, as      *)
(* they can on the server.                                                 *)
(***************************************************************************)
EXTENDS Integers, Sequences, FiniteSets, TLC

----------------------------------------------------------------------------
(* Bounds of the model *)

\* deposit ids ever allocated (Deposit.id is a fresh uuid per insert)
MaxDeposits == 2
\* requests between their read step and their write step at one time
MaxInFlight == 2
\* audit entries after which no further member rejection is explored
MaxAuditLog == 3
\* refresh tokens that can be issued
MaxTokens == 2
\* resolution of the clock: instants per day, days per month
TicksPerDay == 2
DaysPerMonth == 30

(* Program constants *)
PENALTY_START_DAY == 16
PENALTY_RATE == 30

----------------------------------------------------------------------------
(* Dates: an instant is a number of ticks since day 1, 00:00 of month 0,   *)
(* in the server's local time.                                             *)

TicksPerMonth == DaysPerMonth * TicksPerDay

At(month, day, tick) == (month * DaysPerMonth + (day - 1)) * TicksPerDay + tick

MonthOf(t) == t \div TicksPerMonth

TimeOfDay(t) == t % TicksPerDay

\* Date.prototype.setDate(day): same month and time of day, given day
setDate(t, day) == MonthOf(t) * TicksPerMonth + (day - 1) * TicksPerDay + TimeOfDay(t)

\* Date.prototype.setHours(0, 0, 0, 0): midnight of the same day
setHoursZero(t) == t - TimeOfDay(t)

CeilDiv(a, b) == (a + b - 1) \div b

----------------------------------------------------------------------------
(* Domains *)

Members == {1, 2}
Admins == {9}

MemberStatus == {"PENDING", "ACTIVE", "SUSPENDED", "INACTIVE", "REJECTED", "BLOCKED"}
PaymentStatus == {"PENDING", "APPROVED", "REJECTED", "CANCELLED"}
PaymentMethod == {"HAND_TO_HAND", "BKASH", "NAGAD", "ROCKET", "BANK_TRANSFER"}
MobileMethods == {"BKASH", "NAGAD", "ROCKET"}
DetailKinds == {"handToHand", "mobilePayment", "bankTransfer"}

DepositIds == 1..MaxDeposits
Slots == 1..MaxInFlight
TokenIds == 1..MaxTokens

\* absent optional DTO field / null column
Undefined == -1
UndefinedMethod == "undefined"
NoDeposit == [absent |-> TRUE]
NoRow == [absent |-> TRUE]
NoToken == [absent |-> TRUE]
Idle == [op |-> "idle"]

\* request inputs explored when every handler is in play
MonthInputs == {At(0, 1, 0), At(0, 15, 1)}
AmountInputs == {1000, 1500}
PaymentDateInputs == {At(0, 16, 0), At(0, 16, 1)}
MethodInputs == {"HAND_TO_HAND"}
DetailInputs == {{}, {"handToHand"}}
ReasonInputs == {"proof unclear"}

\* request inputs explored when requests are served concurrently
ConcurrentMembers == {1}
ConcurrentMonths == {At(0, 1, 0)}
ConcurrentDates == {At(0, 16, 1)}

\* request inputs explored for the member's own operations
LifecycleMembers == {1}
LifecycleMonths == {At(0, 1, 0), At(0, 15, 1), At(1, 1, 0)}
LifecycleAmounts == {1000, 1500, 8300}
LifecycleDates == {At(0, 10, 0), At(0, 16, 0), At(0, 16, 1), At(1, 16, 1)}

----------------------------------------------------------------------------
(* Penalty *)

\* Base amounts up to 20000 for which the IEEE-754 double (a / 1000) * 30
\* is one ulp above the exact product a * 30 / 1000, which is an integer
\* there (8300 / 1000 * 30 evaluates to 249.00000000000003).
DoubleRoundsUp == {8300, 16100, 16600}

\* Math.ceil((depositAmount / 1000) * PENALTY_RATE) in double arithmetic
CeilOfProduct(depositAmount) ==
    CeilDiv(depositAmount * PENALTY_RATE, 1000)
        + (IF depositAmount \in DoubleRoundsUp THEN 1 ELSE 0)

penaltyStartDate(depositMonth) ==
    setHoursZero(setDate(depositMonth, PENALTY_START_DAY))

\* fault: the rate charged per completed thousand
calculatePenaltyFloor(depositMonth, paymentDate, depositAmount) ==
    IF paymentDate > penaltyStartDate(depositMonth)
    THEN (depositAmount \div 1000) * PENALTY_RATE
    ELSE 0

\* fault: a payment at the penalty start instant itself is charged
calculatePenaltyFromStart(depositMonth, paymentDate, depositAmount) ==
    IF paymentDate >= penaltyStartDate(depositMonth)
    THEN CeilOfProduct(depositAmount)
    ELSE 0

calculatePenalty(depositMonth, paymentDate, depositAmount) ==
    IF paymentDate > penaltyStartDate(depositMonth)
    THEN CeilOfProduct(depositAmount)
    ELSE 0

----------------------------------------------------------------------------
(* Payment method details *)

\* the detail record a payment method calls for
DetailKindOf(paymentMethod) ==
    CASE paymentMethod = "HAND_TO_HAND" -> "handToHand"
      [] paymentMethod \in MobileMethods -> "mobilePayment"
      [] paymentMethod = "BANK_TRANSFER" -> "bankTransfer"
      [] OTHER -> "none"

\* validatePaymentMethodDetails: TRUE when it does not throw
validatePaymentMethodDetails(paymentMethod, dtoDetails) ==
    /\ paymentMethod \in PaymentMethod
    /\ DetailKindOf(paymentMethod) \in dtoDetails

----------------------------------------------------------------------------
VARIABLES
    userStatus,   \* User.status of each member
    deposits,     \* Deposit rows by id, NoDeposit when there is none
    details,      \* per deposit id, the kinds of detail rows that exist
    memberStats,  \* MemberStats (ledger) row of each member, NoRow when none
    auditLog,     \* AuditLog rows in insertion order
    nextId,       \* next deposit id to allocate
    refreshTokens, \* RefreshToken rows by token, NoToken when there is none
    inflight,     \* per slot, the request between its read and write step
    last          \* the outcome of the request that returned last

vars == <<userStatus, deposits, details, memberStats, auditLog, nextId,
          refreshTokens, inflight, last>>

db == <<userStatus, deposits, details, memberStats, auditLog, nextId,
        refreshTokens>>

\* Member 1 was imported as ACTIVE (the import service creates the user
\* without a MemberStats row), member 2 registered and is PENDING.
Init ==
    /\ userStatus = [m \in Members |-> IF m = 1 THEN "ACTIVE" ELSE "PENDING"]
    /\ deposits = [d \in DepositIds |-> NoDeposit]
    /\ details = [d \in DepositIds |-> {}]
    /\ memberStats = [m \in Members |-> NoRow]
    /\ auditLog = <<>>
    /\ nextId = 1
    /\ refreshTokens = [t \in TokenIds |-> NoToken]
    /\ inflight = [s \in Slots |-> Idle]
    /\ last = [op |-> "none", result |-> "none", dep |-> 0, caller |-> 0,
               mail |-> "none", data |-> NoDeposit]

\* simplifyError: the exception the client gets for an error thrown in a
\* handler.  Prisma's known request errors become Conflict (P2002, unique
\* constraint) and NotFound (P2025, row to update or delete missing), any
\* other Prisma error InternalServerError; HTTP exceptions pass through.
simplifyError(error) ==
    CASE error = "P2002" -> "Conflict"
      [] error = "P2025" -> "NotFound"
      [] error \in {"BadRequest", "Unauthorized", "NotFound", "Conflict", "Forbidden"} -> error
      [] OTHER -> "InternalServerError"

\* the @HandleError decorator of the service methods: the method's result,
\* or simplifyError of what it threw
HandleError(result) == IF result = "ok" THEN "ok" ELSE simplifyError(result)

\* what a handler leaves in last when it returns: the handler, "ok" or the
\* exception the client gets, the deposit, the caller, whether the
\* notification mail went out, the deposit data in the response
Outcome(op, result, dep, caller) ==
    [op |-> op, result |-> HandleError(result), dep |-> dep, caller |-> caller,
     mail |-> "none", data |-> NoDeposit]

FreeSlots == {s \in Slots : inflight[s] = Idle}

\* the slot a new request takes
FreeSlot == CHOOSE s \in FreeSlots : \A t \in FreeSlots : s <= t

Exists(d) == d \in DepositIds /\ deposits[d] # NoDeposit

\* the stored deposits with the unique key (memberId, depositMonth)
ByKey(memberId, depositMonth) ==
    {d \in DepositIds : Exists(d) /\ deposits[d].memberId = memberId
                          /\ deposits[d].depositMonth = depositMonth}

----------------------------------------------------------------------------
(* DepositService.createDeposit *)

CreateDtos ==
    [depositMonth : MonthInputs, depositAmount : AmountInputs,
     paymentDate : PaymentDateInputs, paymentMethod : MethodInputs,
     details : DetailInputs]

ConcurrentCreateDtos ==
    [depositMonth : ConcurrentMonths, depositAmount : AmountInputs,
     paymentDate : ConcurrentDates, paymentMethod : MethodInputs,
     details : DetailInputs]

LifecycleCreateDtos ==
    [depositMonth : LifecycleMonths, depositAmount : LifecycleAmounts,
     paymentDate : LifecycleDates, paymentMethod : MethodInputs,
     details : DetailInputs]

\* fault: only members awaiting approval are refused
validateUserStatusNotPending(userId) == userStatus[userId] # "PENDING"

\* validateUserStatus: TRUE when it does not throw
validateUserStatus(userId) == userStatus[userId] = "ACTIVE"

\* the checks of createDeposit before its transaction, in the code's order
createDepositCheck(dto, userId) ==
    IF ~validateUserStatus(userId) THEN "Forbidden"
    ELSE IF ByKey(userId, dto.depositMonth) # {} THEN "BadRequest"
    ELSE IF ~validatePaymentMethodDetails(dto.paymentMethod, dto.details) THEN "BadRequest"
    ELSE "ok"

\* the row tx.deposit.create inserts
NewDeposit(memberId, dto) ==
    LET penalty == calculatePenalty(dto.depositMonth, dto.paymentDate, dto.depositAmount)
    IN [memberId |-> memberId,
        depositMonth |-> dto.depositMonth,
        depositAmount |-> dto.depositAmount,
        penalty |-> penalty,
        totalAmount |-> dto.depositAmount + penalty,
        paymentDate |-> dto.paymentDate,
        paymentMethod |-> dto.paymentMethod,
        status |-> "PENDING",
        rejectionReason |-> "null",
        approvedBy |-> 0,
        approvedAt |-> "null"]

\* the detail row created with a deposit of this method from this payload
NewDetails(paymentMethod, dtoDetails) ==
    {DetailKindOf(paymentMethod)} \cap dtoDetails

\* what the transaction of createDeposit uses of the request
createDepositRequest(dto, userId) ==
    [op |-> "createDeposit", row |-> NewDeposit(userId, dto),
     details |-> NewDetails(dto.paymentMethod, dto.details)]

\* fault: the insert also opens the member's ledger row when there is none
createDepositTxOpensLedger(req) ==
    IF ByKey(req.row.memberId, req.row.depositMonth) # {}
    THEN /\ last' = Outcome("createDeposit", "P2002", 0, req.row.memberId)
         /\ UNCHANGED db
    ELSE /\ deposits' = [deposits EXCEPT ![nextId] = req.row]
         /\ details' = [details EXCEPT ![nextId] = req.details]
         /\ nextId' = nextId + 1
         /\ memberStats' = [memberStats EXCEPT ![req.row.memberId] =
                               IF @ = NoRow
                               THEN [totalDeposited |-> 0, totalPenalties |-> 0,
                                     totalContribution |-> 0, totalMonthsPaid |-> 0,
                                     consecutiveMonths |-> 0, missedMonths |-> 0,
                                     lastDepositDate |-> Undefined,
                                     lastDepositMonth |-> Undefined]
                               ELSE @]
         /\ last' = Outcome("createDeposit", "ok", nextId, req.row.memberId)
         /\ UNCHANGED <<userStatus, auditLog, refreshTokens>>

\* the transaction: the insert fails on the unique index
\* Deposit_memberId_depositMonth_key and then nothing is stored
createDepositTx(req) ==
    IF ByKey(req.row.memberId, req.row.depositMonth) # {}
    THEN /\ last' = Outcome("createDeposit", "P2002", 0, req.row.memberId)
         /\ UNCHANGED db
    ELSE /\ deposits' = [deposits EXCEPT ![nextId] = req.row]
         /\ details' = [details EXCEPT ![nextId] = req.details]
         /\ nextId' = nextId + 1
         /\ last' = Outcome("createDeposit", "ok", nextId, req.row.memberId)
         /\ UNCHANGED <<userStatus, memberStats, auditLog, refreshTokens>>

InFlightCreates == Cardinality({s \in Slots : inflight[s].op = "createDeposit"})

\* the whole handler, run without another request in between
createDeposit(users, dtos) ==
    \E userId \in users, dto \in dtos :
        LET r == createDepositCheck(dto, userId) IN
        /\ UNCHANGED inflight
        /\ IF r = "ok"
           THEN nextId <= MaxDeposits /\ createDepositTx(createDepositRequest(dto, userId))
           ELSE last' = Outcome("createDeposit", r, 0, userId) /\ UNCHANGED db

createDepositRead(users, dtos) ==
    \E userId \in users, dto \in dtos :
        LET r == createDepositCheck(dto, userId) IN
        /\ UNCHANGED db
        /\ IF r = "ok"
           THEN /\ FreeSlots # {}
                /\ nextId + InFlightCreates <= MaxDeposits
                /\ inflight' = [inflight EXCEPT ![FreeSlot] = createDepositRequest(dto, userId)]
                /\ UNCHANGED last
           ELSE /\ last' = Outcome("createDeposit", r, 0, userId)
                /\ UNCHANGED inflight

createDepositWrite ==
    \E s \in Slots :
        /\ inflight[s].op = "createDeposit"
        /\ inflight' = [inflight EXCEPT ![s] = Idle]
        /\ createDepositTx(inflight[s])

----------------------------------------------------------------------------
(* DepositService.updateDeposit *)

UpdateDtos ==
    [depositAmount : AmountInputs \cup {Undefined},
     paymentDate : PaymentDateInputs \cup {Undefined},
     paymentMethod : MethodInputs \cup {UndefinedMethod},
     details : DetailInputs]

ConcurrentUpdateDtos ==
    [depositAmount : AmountInputs \cup {Undefined},
     paymentDate : ConcurrentDates \cup {Undefined},
     paymentMethod : MethodInputs \cup {UndefinedMethod},
     details : DetailInputs]

LifecycleUpdateDtos ==
    [depositAmount : LifecycleAmounts \cup {Undefined},
     paymentDate : LifecycleDates \cup {Undefined},
     paymentMethod : MethodInputs \cup {UndefinedMethod},
     details : DetailInputs]

\* fault: any user may access a deposit that exists
validateDepositOwnershipExistsOnly(depositId, userId) ==
    IF ~Exists(depositId) THEN "NotFound" ELSE "ok"

\* validateDepositOwnership, as the error it throws or "ok"
validateDepositOwnership(depositId, userId) ==
    IF ~Exists(depositId) THEN "NotFound"
    ELSE IF deposits[depositId].memberId # userId THEN "Forbidden"
    ELSE "ok"

\* DepositService.getDepositById: the response carries the deposit row
getDepositById(users) ==
    \E userId \in users, depositId \in DepositIds :
        LET own == validateDepositOwnership(depositId, userId) IN
        /\ last' = IF own = "ok"
                   THEN [Outcome("getDepositById", "ok", depositId, userId)
                             EXCEPT !.data = deposits[depositId]]
                   ELSE Outcome("getDepositById", own, depositId, userId)
        /\ UNCHANGED <<db, inflight>>

\* updateData after the "if (dto.depositAmount !== undefined)" block
UpdateDataAmount(existingDeposit, dto) ==
    IF dto.depositAmount # Undefined
    THEN LET paymentDate == IF dto.paymentDate # Undefined
                            THEN dto.paymentDate ELSE existingDeposit.paymentDate
             penalty == calculatePenalty(existingDeposit.depositMonth, paymentDate,
                                         dto.depositAmount)
         IN [depositAmount |-> dto.depositAmount, penalty |-> penalty,
             totalAmount |-> dto.depositAmount + penalty, paymentDate |-> Undefined,
             paymentMethod |-> UndefinedMethod]
    ELSE [depositAmount |-> Undefined, penalty |-> Undefined,
          totalAmount |-> Undefined, paymentDate |-> Undefined,
          paymentMethod |-> UndefinedMethod]

\* fault: a new payment date is stored without recomputing the penalty
UpdateDataKeepsPenalty(existingDeposit, dto) ==
    LET u1 == UpdateDataAmount(existingDeposit, dto)
        u2 == IF dto.paymentDate # Undefined
              THEN [u1 EXCEPT !.paymentDate = dto.paymentDate]
              ELSE u1
    IN [u2 EXCEPT !.paymentMethod = dto.paymentMethod]

\* updateData after the "if (dto.paymentDate)" and the
\* "if (dto.paymentMethod !== undefined)" blocks as well
UpdateData(existingDeposit, dto) ==
    LET u1 == UpdateDataAmount(existingDeposit, dto)
        u2 == IF dto.paymentDate # Undefined
              THEN LET depositAmount == IF dto.depositAmount # Undefined
                                        THEN dto.depositAmount
                                        ELSE existingDeposit.depositAmount
                       penalty == calculatePenalty(existingDeposit.depositMonth,
                                                   dto.paymentDate, depositAmount)
                   IN [u1 EXCEPT !.paymentDate = dto.paymentDate, !.penalty = penalty,
                                 !.totalAmount = depositAmount + penalty]
              ELSE u1
    IN [u2 EXCEPT !.paymentMethod = dto.paymentMethod]

\* the checks of updateDeposit before its transaction, in the code's order
updateDepositCheck(depositId, dto, userId) ==
    LET own == validateDepositOwnership(depositId, userId) IN
    IF own # "ok" THEN own
    ELSE IF deposits[depositId].status # "PENDING" THEN "BadRequest"
    ELSE IF ~validateUserStatus(userId) THEN "Forbidden"
    ELSE IF /\ dto.paymentMethod # UndefinedMethod
            /\ ~validatePaymentMethodDetails(dto.paymentMethod, dto.details) THEN "BadRequest"
    ELSE "ok"

Pick(new, old) == IF new # Undefined THEN new ELSE old

\* tx.deposit.update({ where: { id }, data: updateData }) on the row as it is now
ApplyUpdateData(row, updateData) ==
    [row EXCEPT !.depositAmount = Pick(updateData.depositAmount, @),
                !.penalty = Pick(updateData.penalty, @),
                !.totalAmount = Pick(updateData.totalAmount, @),
                !.paymentDate = Pick(updateData.paymentDate, @),
                !.paymentMethod = IF updateData.paymentMethod # UndefinedMethod
                                   THEN updateData.paymentMethod ELSE @]

paymentMethodChanged(existingDeposit, dto) ==
    dto.paymentMethod # UndefinedMethod /\ dto.paymentMethod # existingDeposit.paymentMethod

\* what the transaction of updateDeposit uses of the request and of
\* existingDeposit (the row and detail rows read before the transaction):
\* the detail kinds it deletes, creates and updates in place
updateDepositRequest(depositId, dto, userId) ==
    LET existingDeposit == deposits[depositId]
        changed == paymentMethodChanged(existingDeposit, dto)
    IN [op |-> "updateDeposit", dep |-> depositId, caller |-> userId,
        updateData |-> UpdateData(existingDeposit, dto),
        deleted |-> IF changed THEN details[depositId] ELSE {},
        created |-> IF changed THEN NewDetails(dto.paymentMethod, dto.details) ELSE {},
        updated |-> IF changed THEN {} ELSE dto.details \cap details[depositId]]

\* The transaction.  It throws, and writes nothing, when the deposit row is
\* gone, when a detail create meets a row of that kind for the deposit
\* (unique depositId) or when a detail update finds no row.
updateDepositTx(req) ==
    LET d == req.dep
        afterDelete == details[d] \ req.deleted
    IN
    IF ~Exists(d) \/ req.created \cap afterDelete # {} \/ ~(req.updated \subseteq details[d])
    THEN /\ last' = Outcome("updateDeposit",
                            IF Exists(d) /\ req.created \cap afterDelete # {}
                            THEN "P2002" ELSE "P2025",
                            d, req.caller)
         /\ UNCHANGED db
    ELSE /\ deposits' = [deposits EXCEPT ![d] = ApplyUpdateData(@, req.updateData)]
         /\ details' = [details EXCEPT ![d] = afterDelete \cup req.created]
         /\ last' = Outcome("updateDeposit", "ok", d, req.caller)
         /\ UNCHANGED <<userStatus, memberStats, auditLog, nextId, refreshTokens>>

updateDeposit(users, dtos) ==
    \E userId \in users, depositId \in DepositIds, dto \in dtos :
        LET r == updateDepositCheck(depositId, dto, userId) IN
        /\ UNCHANGED inflight
        /\ IF r = "ok"
           THEN updateDepositTx(updateDepositRequest(depositId, dto, userId))
           ELSE last' = Outcome("updateDeposit", r, depositId, userId) /\ UNCHANGED db

updateDepositRead(users, dtos) ==
    \E userId \in users, depositId \in DepositIds, dto \in dtos :
        LET r == updateDepositCheck(depositId, dto, userId) IN
        /\ UNCHANGED db
        /\ IF r = "ok"
           THEN /\ FreeSlots # {}
                /\ inflight' = [inflight EXCEPT ![FreeSlot] =
                                   updateDepositRequest(depositId, dto, userId)]
                /\ UNCHANGED last
           ELSE /\ last' = Outcome("updateDeposit", r, depositId, userId)
                /\ UNCHANGED inflight

updateDepositWrite ==
    \E s \in Slots :
        /\ inflight[s].op = "updateDeposit"
        /\ inflight' = [inflight EXCEPT ![s] = Idle]
        /\ updateDepositTx(inflight[s])

----------------------------------------------------------------------------
(* DepositService.deleteDeposit *)

\* fault: a delete that only refuses approved deposits
deleteDepositCheckApprovedOnly(depositId, userId) ==
    LET own == validateDepositOwnership(depositId, userId) IN
    IF own # "ok" THEN own
    ELSE IF deposits[depositId].status = "APPROVED" THEN "BadRequest"
    ELSE "ok"

\* the checks of deleteDeposit before its delete call
deleteDepositCheck(depositId, userId) ==
    LET own == validateDepositOwnership(depositId, userId) IN
    IF own # "ok" THEN own
    ELSE IF deposits[depositId].status # "PENDING" THEN "BadRequest"
    ELSE "ok"

deleteDepositRequest(depositId, userId) ==
    [op |-> "deleteDeposit", dep |-> depositId, caller |-> userId]

\* prisma.deposit.delete; the detail rows go by ON DELETE CASCADE
deleteDepositTx(req) ==
    LET d == req.dep IN
    IF ~Exists(d)
    THEN /\ last' = Outcome("deleteDeposit", "P2025", d, req.caller)
         /\ UNCHANGED db
    ELSE /\ deposits' = [deposits EXCEPT ![d] = NoDeposit]
         /\ details' = [details EXCEPT ![d] = {}]
         /\ last' = Outcome("deleteDeposit", "ok", d, req.caller)
         /\ UNCHANGED <<userStatus, memberStats, auditLog, nextId, refreshTokens>>

deleteDeposit(users) ==
    \E userId \in users, depositId \in DepositIds :
        LET r == deleteDepositCheck(depositId, userId) IN
        /\ UNCHANGED inflight
        /\ IF r = "ok"
           THEN deleteDepositTx(deleteDepositRequest(depositId, userId))
           ELSE last' = Outcome("deleteDeposit", r, depositId, userId) /\ UNCHANGED db

deleteDepositRead(users) ==
    \E userId \in users, depositId \in DepositIds :
        LET r == deleteDepositCheck(depositId, userId) IN
        /\ UNCHANGED db
        /\ IF r = "ok"
           THEN /\ FreeSlots # {}
                /\ inflight' = [inflight EXCEPT ![FreeSlot] =
                                   deleteDepositRequest(depositId, userId)]
                /\ UNCHANGED last
           ELSE /\ last' = Outcome("deleteDeposit", r, depositId, userId)
                /\ UNCHANGED inflight

deleteDepositWrite ==
    \E s \in Slots :
        /\ inflight[s].op = "deleteDeposit"
        /\ inflight' = [inflight EXCEPT ![s] = Idle]
        /\ deleteDepositTx(inflight[s])

----------------------------------------------------------------------------
(* Transactions and notifications of the admin workflow.  What happens to  *)
(* a request while it writes is its environment: the database call of the *)
(* transaction that fails (none when all succeed) and whether the mail     *)
(* service delivers the notification.                                      *)

ApproveWrites == <<"deposit.update", "memberStats", "auditLog.create">>
RejectWrites == <<"deposit.update", "auditLog.create">>

NoFault == [failAt |-> "none", mailOk |-> TRUE]

ApproveEnvironments ==
    [failAt : {"none", "deposit.update", "memberStats", "auditLog.create"}, mailOk : BOOLEAN]

RejectEnvironments ==
    [failAt : {"none", "deposit.update", "auditLog.create"}, mailOk : BOOLEAN]

\* the writes of a transaction callback that ran before the call that failed
WritesBefore(writes, failAt) ==
    {writes[i] : i \in {j \in 1..Len(writes) : \A k \in 1..j : writes[k] # failAt}}

\* fault: the writes go to the database one by one, outside a transaction
CommittedEachWrite(writes, failAt) == WritesBefore(writes, failAt)

\* prisma.$transaction(async (tx) => ...): the writes of the callback are
\* committed together when it returns and rolled back when it throws
Committed(writes, failAt) ==
    IF failAt = "none" THEN WritesBefore(writes, failAt) ELSE {}

\* fault: a failed notification is thrown on to the caller
sendEmailUncaught(mailOk) ==
    [result |-> IF mailOk THEN "ok" ELSE "MailError",
     mail |-> IF mailOk THEN "sent" ELSE "failed"]

\* try { await emailService.send...Email(...) } catch { logger.error(...) }:
\* what the handler goes on with, and whether the mail went out
sendEmailCaught(mailOk) ==
    [result |-> "ok", mail |-> IF mailOk THEN "sent" ELSE "failed"]

----------------------------------------------------------------------------
(* DepositRequestService.approveDepositRequest *)

\* fault: no check for an approved deposit
approveDepositCheckNoApproved(depositId) ==
    IF ~Exists(depositId) THEN "NotFound"
    ELSE IF deposits[depositId].status = "REJECTED" THEN "BadRequest"
    ELSE "ok"

\* fault: no check for a rejected deposit
approveDepositCheckNoRejected(depositId) ==
    IF ~Exists(depositId) THEN "NotFound"
    ELSE IF deposits[depositId].status = "APPROVED" THEN "BadRequest"
    ELSE "ok"

\* the status checks of approveDepositRequest, as the error thrown or "ok"
approveDepositCheck(depositId) ==
    IF ~Exists(depositId) THEN "NotFound"
    ELSE IF deposits[depositId].status = "APPROVED" THEN "BadRequest"
    ELSE IF deposits[depositId].status = "REJECTED" THEN "BadRequest"
    ELSE "ok"

\* tx.deposit.update of the approval on the row as it is now
ApprovedRow(row, adminMemberId) ==
    [row EXCEPT !.status = "APPROVED", !.approvedBy = adminMemberId, !.approvedAt = "set"]

\* fault: the contribution grows by the base amount, without the penalty
ApprovedStatsBaseOnly(stats, depositRecord) ==
    IF stats # NoRow
    THEN [stats EXCEPT !.totalDeposited = @ + depositRecord.depositAmount,
                       !.totalPenalties = @ + depositRecord.penalty,
                       !.totalContribution = @ + depositRecord.depositAmount,
                       !.totalMonthsPaid = @ + 1,
                       !.consecutiveMonths = @ + 1,
                       !.lastDepositDate = depositRecord.paymentDate,
                       !.lastDepositMonth = depositRecord.depositMonth]
    ELSE [totalDeposited |-> depositRecord.depositAmount,
          totalPenalties |-> depositRecord.penalty,
          totalContribution |-> depositRecord.depositAmount,
          totalMonthsPaid |-> 1,
          consecutiveMonths |-> 1,
          missedMonths |-> 0,
          lastDepositDate |-> depositRecord.paymentDate,
          lastDepositMonth |-> depositRecord.depositMonth]

\* the MemberStats row after the approval: incremented by the amounts of
\* depositRecord (the row read before the transaction), created when absent
ApprovedStats(stats, depositRecord) ==
    IF stats # NoRow
    THEN [stats EXCEPT !.totalDeposited = @ + depositRecord.depositAmount,
                       !.totalPenalties = @ + depositRecord.penalty,
                       !.totalContribution = @ + depositRecord.totalAmount,
                       !.totalMonthsPaid = @ + 1,
                       !.consecutiveMonths = @ + 1,
                       !.lastDepositDate = depositRecord.paymentDate,
                       !.lastDepositMonth = depositRecord.depositMonth]
    ELSE [totalDeposited |-> depositRecord.depositAmount,
          totalPenalties |-> depositRecord.penalty,
          totalContribution |-> depositRecord.totalAmount,
          totalMonthsPaid |-> 1,
          consecutiveMonths |-> 1,
          missedMonths |-> 0,
          lastDepositDate |-> depositRecord.paymentDate,
          lastDepositMonth |-> depositRecord.depositMonth]

AuditEntry(action, entityType, entityId, performedBy, rejectionReason) ==
    [action |-> action, entityType |-> entityType, entityId |-> entityId,
     performedBy |-> performedBy, rejectionReason |-> rejectionReason]

approveDepositRequestRequest(depositId, adminMemberId) ==
    [op |-> "approveDepositRequest", dep |-> depositId, adminMemberId |-> adminMemberId,
     depositRecord |-> deposits[depositId]]

\* The transaction (deposit update, MemberStats update or create, audit
\* entry), then the notification and the response.  The deposit update
\* throws P2025 when the row is gone.
approveDepositRequestTx(req, env) ==
    LET d == req.dep
        m == req.depositRecord.memberId
        failAt == IF ~Exists(d) THEN "deposit.update" ELSE env.failAt
        thrown == IF ~Exists(d) THEN "P2025"
                  ELSE IF failAt # "none" THEN "PrismaClientError" ELSE "ok"
        done == Committed(ApproveWrites, failAt)
        sent == sendEmailCaught(env.mailOk)
    IN
    /\ deposits' = IF "deposit.update" \in done
                   THEN [deposits EXCEPT ![d] = ApprovedRow(@, req.adminMemberId)]
                   ELSE deposits
    /\ memberStats' = IF "memberStats" \in done
                      THEN [memberStats EXCEPT ![m] = ApprovedStats(@, req.depositRecord)]
                      ELSE memberStats
    /\ auditLog' = IF "auditLog.create" \in done
                   THEN Append(auditLog, AuditEntry("DEPOSIT_APPROVED", "Deposit", d,
                                                    req.adminMemberId, "null"))
                   ELSE auditLog
    /\ last' = IF thrown = "ok"
               THEN [Outcome("approveDepositRequest", sent.result, d, req.adminMemberId)
                         EXCEPT !.mail = sent.mail]
               ELSE Outcome("approveDepositRequest", thrown, d, req.adminMemberId)
    /\ UNCHANGED <<userStatus, details, nextId, refreshTokens>>

\* the service method called for this deposit by this admin
approveDepositRequestCall(depositId, adminMemberId, env) ==
    LET r == approveDepositCheck(depositId) IN
    /\ UNCHANGED inflight
    /\ IF r = "ok"
       THEN approveDepositRequestTx(approveDepositRequestRequest(depositId, adminMemberId), env)
       ELSE last' = Outcome("approveDepositRequest", r, depositId, adminMemberId) /\ UNCHANGED db

approveDepositRequest ==
    \E adminMemberId \in Admins, depositId \in DepositIds :
        approveDepositRequestCall(depositId, adminMemberId, NoFault)

approveDepositRequestRead ==
    \E adminMemberId \in Admins, depositId \in DepositIds :
        LET r == approveDepositCheck(depositId) IN
        /\ UNCHANGED db
        /\ IF r = "ok"
           THEN /\ FreeSlots # {}
                /\ inflight' = [inflight EXCEPT ![FreeSlot] =
                                   approveDepositRequestRequest(depositId, adminMemberId)]
                /\ UNCHANGED last
           ELSE /\ last' = Outcome("approveDepositRequest", r, depositId, adminMemberId)
                /\ UNCHANGED inflight

approveDepositRequestWrite ==
    \E s \in Slots :
        /\ inflight[s].op = "approveDepositRequest"
        /\ inflight' = [inflight EXCEPT ![s] = Idle]
        /\ approveDepositRequestTx(inflight[s], NoFault)

----------------------------------------------------------------------------
(* DepositRequestService.rejectDepositRequest *)

\* the status checks of rejectDepositRequest, as the error thrown or "ok"
rejectDepositCheck(depositId) ==
    IF ~Exists(depositId) THEN "NotFound"
    ELSE IF deposits[depositId].status = "REJECTED" THEN "BadRequest"
    ELSE IF deposits[depositId].status = "APPROVED" THEN "BadRequest"
    ELSE "ok"

\* tx.deposit.update of the rejection on the row as it is now
RejectedRow(row, rejectionReason) ==
    [row EXCEPT !.status = "REJECTED", !.rejectionReason = rejectionReason]

\* fault: the audit row of a rejection without the reason
RejectionAuditNoReason(depositId, adminMemberId, rejectionReason) ==
    [action |-> "DEPOSIT_REJECTED", entityType |-> "Deposit", entityId |-> depositId,
     performedBy |-> adminMemberId, rejectionReason |-> "null"]

\* the audit row of a rejection
RejectionAudit(depositId, adminMemberId, rejectionReason) ==
    AuditEntry("DEPOSIT_REJECTED", "Deposit", depositId, adminMemberId, rejectionReason)

rejectDepositRequestRequest(depositId, adminMemberId, rejectionReason) ==
    [op |-> "rejectDepositRequest", dep |-> depositId, adminMemberId |-> adminMemberId,
     rejectionReason |-> rejectionReason]

\* fault: a rejection that takes the deposit's months off the ledger
rejectDepositRequestTxLedger(req, env) ==
    LET d == req.dep
        failAt == IF ~Exists(d) THEN "deposit.update" ELSE env.failAt
        thrown == IF ~Exists(d) THEN "P2025"
                  ELSE IF failAt # "none" THEN "PrismaClientError" ELSE "ok"
        done == Committed(RejectWrites, failAt)
        sent == sendEmailCaught(env.mailOk)
    IN
    /\ deposits' = IF "deposit.update" \in done
                   THEN [deposits EXCEPT ![d] = RejectedRow(@, req.rejectionReason)]
                   ELSE deposits
    /\ memberStats' = IF "deposit.update" \in done
                      THEN [memberStats EXCEPT ![deposits[d].memberId] =
                               IF @ = NoRow THEN @ ELSE [@ EXCEPT !.consecutiveMonths = 0]]
                      ELSE memberStats
    /\ auditLog' = IF "auditLog.create" \in done
                   THEN Append(auditLog,
                               RejectionAudit(d, req.adminMemberId, req.rejectionReason))
                   ELSE auditLog
    /\ last' = IF thrown = "ok"
               THEN [Outcome("rejectDepositRequest", sent.result, d, req.adminMemberId)
                         EXCEPT !.mail = sent.mail]
               ELSE Outcome("rejectDepositRequest", thrown, d, req.adminMemberId)
    /\ UNCHANGED <<userStatus, details, nextId, refreshTokens>>

\* The transaction (deposit update and audit entry), then the notification
\* and the response.  The deposit update throws P2025 when the row is gone.
rejectDepositRequestTx(req, env) ==
    LET d == req.dep
        failAt == IF ~Exists(d) THEN "deposit.update" ELSE env.failAt
        thrown == IF ~Exists(d) THEN "P2025"
                  ELSE IF failAt # "none" THEN "PrismaClientError" ELSE "ok"
        done == Committed(RejectWrites, failAt)
        sent == sendEmailCaught(env.mailOk)
    IN
    /\ deposits' = IF "deposit.update" \in done
                   THEN [deposits EXCEPT ![d] = RejectedRow(@, req.rejectionReason)]
                   ELSE deposits
    /\ auditLog' = IF "auditLog.create" \in done
                   THEN Append(auditLog,
                               RejectionAudit(d, req.adminMemberId, req.rejectionReason))
                   ELSE auditLog
    /\ last' = IF thrown = "ok"
               THEN [Outcome("rejectDepositRequest", sent.result, d, req.adminMemberId)
                         EXCEPT !.mail = sent.mail]
               ELSE Outcome("rejectDepositRequest", thrown, d, req.adminMemberId)
    /\ UNCHANGED <<userStatus, details, memberStats, nextId, refreshTokens>>

\* the service method called for this deposit by this admin
rejectDepositRequestCall(depositId, adminMemberId, reason, env) ==
    LET r == rejectDepositCheck(depositId) IN
    /\ UNCHANGED inflight
    /\ IF r = "ok"
       THEN rejectDepositRequestTx(
                rejectDepositRequestRequest(depositId, adminMemberId, reason), env)
       ELSE last' = Outcome("rejectDepositRequest", r, depositId, adminMemberId) /\ UNCHANGED db

rejectDepositRequest ==
    \E adminMemberId \in Admins, depositId \in DepositIds, reason \in ReasonInputs :
        rejectDepositRequestCall(depositId, adminMemberId, reason, NoFault)

rejectDepositRequestRead ==
    \E adminMemberId \in Admins, depositId \in DepositIds, reason \in ReasonInputs :
        LET r == rejectDepositCheck(depositId) IN
        /\ UNCHANGED db
        /\ IF r = "ok"
           THEN /\ FreeSlots # {}
                /\ inflight' = [inflight EXCEPT ![FreeSlot] =
                        rejectDepositRequestRequest(depositId, adminMemberId, reason)]
                /\ UNCHANGED last
           ELSE /\ last' = Outcome("rejectDepositRequest", r, depositId, adminMemberId)
                /\ UNCHANGED inflight

rejectDepositRequestWrite ==
    \E s \in Slots :
        /\ inflight[s].op = "rejectDepositRequest"
        /\ inflight' = [inflight EXCEPT ![s] = Idle]
        /\ rejectDepositRequestTx(inflight[s], NoFault)

----------------------------------------------------------------------------
(* UserRequestService.approveUserRequest *)

\* the status checks of approveUserRequest, as the error thrown or "ok"
approveUserCheck(status) ==
    IF status = "ACTIVE" THEN "BadRequest"
    ELSE IF status = "REJECTED" THEN "BadRequest"
    ELSE "ok"

\* the row memberStats.upsert creates: every column at its schema default
ZeroStats ==
    [totalDeposited |-> 0, totalPenalties |-> 0, totalContribution |-> 0,
     totalMonthsPaid |-> 0, consecutiveMonths |-> 0, missedMonths |-> 0,
     lastDepositDate |-> Undefined, lastDepositMonth |-> Undefined]

\* fault: the upsert resets a row that exists
UpsertedStatsReset(stats) == ZeroStats

\* memberStats.upsert({ update: {}, create: { memberId } }) on this row
UpsertedStats(stats) == IF stats = NoRow THEN ZeroStats ELSE stats

ApproveUserWrites == <<"user.update", "memberStats.upsert">>

ApproveUserEnvironments ==
    [failAt : {"none", "user.update", "memberStats.upsert"}, mailOk : {TRUE}]

\* the service method called for this member by this admin: the checks, then
\* the transaction (user update, MemberStats upsert); it writes no audit entry
approveUserRequestCall(requestId, adminMemberId, env) ==
    LET r == approveUserCheck(userStatus[requestId])
        done == Committed(ApproveUserWrites, env.failAt)
        thrown == IF env.failAt # "none" THEN "PrismaClientError" ELSE "ok"
    IN
    /\ UNCHANGED inflight
    /\ IF r = "ok"
       THEN /\ userStatus' = IF "user.update" \in done
                             THEN [userStatus EXCEPT ![requestId] = "ACTIVE"]
                             ELSE userStatus
            /\ memberStats' = IF "memberStats.upsert" \in done
                              THEN [memberStats EXCEPT ![requestId] = UpsertedStats(@)]
                              ELSE memberStats
            /\ last' = Outcome("approveUserRequest", thrown, requestId, adminMemberId)
            /\ UNCHANGED <<deposits, details, auditLog, nextId, refreshTokens>>
       ELSE /\ last' = Outcome("approveUserRequest", r, requestId, adminMemberId)
            /\ UNCHANGED db

approveUserRequest ==
    \E adminMemberId \in Admins, requestId \in Members :
        approveUserRequestCall(requestId, adminMemberId, NoFault)

----------------------------------------------------------------------------
(* UserRequestService.rejectUserRequest *)

\* the status checks of rejectUserRequest, as the error thrown or "ok"
rejectUserCheck(status) ==
    IF status = "REJECTED" THEN "BadRequest"
    ELSE IF status = "ACTIVE" THEN "BadRequest"
    ELSE "ok"

RejectUserWrites == <<"user.update", "auditLog.create">>

RejectUserEnvironments ==
    [failAt : {"none", "user.update", "auditLog.create"}, mailOk : {TRUE}]

\* the checks, then the transaction (user update, audit entry USER_REJECTED)
rejectUserRequestCall(requestId, adminMemberId, rejectionReason, env) ==
    LET r == rejectUserCheck(userStatus[requestId])
        done == Committed(RejectUserWrites, env.failAt)
        thrown == IF env.failAt # "none" THEN "PrismaClientError" ELSE "ok"
    IN
    /\ UNCHANGED inflight
    /\ IF r = "ok"
       THEN /\ userStatus' = IF "user.update" \in done
                             THEN [userStatus EXCEPT ![requestId] = "REJECTED"]
                             ELSE userStatus
            /\ auditLog' = IF "auditLog.create" \in done
                           THEN Append(auditLog, AuditEntry("USER_REJECTED", "User", requestId,
                                                            adminMemberId, rejectionReason))
                           ELSE auditLog
            /\ last' = Outcome("rejectUserRequest", thrown, requestId, adminMemberId)
            /\ UNCHANGED <<deposits, details, memberStats, nextId, refreshTokens>>
       ELSE /\ last' = Outcome("rejectUserRequest", r, requestId, adminMemberId)
            /\ UNCHANGED db

----------------------------------------------------------------------------
(* AdminService.suspendUser and AdminService.activateUser: the status is   *)
(* set whatever it was, and nothing else is written.                       *)

suspendUser(users) ==
    \E userId \in users :
        /\ userStatus' = [userStatus EXCEPT ![userId] = "SUSPENDED"]
        /\ last' = Outcome("suspendUser", "ok", userId, 0)
        /\ UNCHANGED <<deposits, details, memberStats, auditLog, nextId, refreshTokens, inflight>>

activateUser(users) ==
    \E userId \in users :
        /\ userStatus' = [userStatus EXCEPT ![userId] = "ACTIVE"]
        /\ last' = Outcome("activateUser", "ok", userId, 0)
        /\ UNCHANGED <<deposits, details, memberStats, auditLog, nextId, refreshTokens, inflight>>

----------------------------------------------------------------------------
(* Reports: the days late shown with a deposit in the member overview and  *)
(* in the admin's deposit-request views, and the admin dashboard's monthly *)
(* collection series.  They read the database and write nothing.           *)

\* getDaysLate of getMemberOverview: day 16 of the target month at the
\* target month's own time of day, days rounded up
getDaysLate(paymentDate, depositMonth) ==
    LET start == setDate(depositMonth, PENALTY_START_DAY) IN
    IF paymentDate > start THEN CeilDiv(paymentDate - start, TicksPerDay) ELSE 0

\* daysLate of getAllDepositRequests and getDepositRequestById: day 16 of
\* the target month at midnight, days rounded down
depositRequestDaysLate(paymentDate, depositMonth) ==
    LET start == setHoursZero(setDate(depositMonth, 16)) IN
    IF paymentDate > start THEN (paymentDate - start) \div TicksPerDay ELSE 0

ApprovedOf(memberId) ==
    {d \in DepositIds : Exists(d) /\ deposits[d].memberId = memberId
                          /\ deposits[d].status = "APPROVED"}

\* what a report leaves in last: the days late shown per deposit
DaysLateReport(op, caller, shown) ==
    [Outcome(op, "ok", 0, caller) EXCEPT !.data = [daysLate |-> shown]]

getMemberOverview(users) ==
    \E userId \in users :
        /\ last' = DaysLateReport("getMemberOverview", userId,
                       [d \in ApprovedOf(userId) |->
                           getDaysLate(deposits[d].paymentDate, deposits[d].depositMonth)])
        /\ UNCHANGED <<db, inflight>>

getAllDepositRequests ==
    \E adminMemberId \in Admins :
        /\ last' = DaysLateReport("getAllDepositRequests", adminMemberId,
                       [d \in {x \in DepositIds : Exists(x)} |->
                           depositRequestDaysLate(deposits[d].paymentDate,
                                                  deposits[d].depositMonth)])
        /\ UNCHANGED <<db, inflight>>

getDepositRequestById ==
    \E adminMemberId \in Admins, depositId \in DepositIds :
        /\ last' = IF Exists(depositId)
                   THEN [DaysLateReport("getDepositRequestById", adminMemberId,
                            [d \in {depositId} |->
                                depositRequestDaysLate(deposits[d].paymentDate,
                                                       deposits[d].depositMonth)])
                            EXCEPT !.dep = depositId]
                   ELSE Outcome("getDepositRequestById", "NotFound", depositId, adminMemberId)
        /\ UNCHANGED <<db, inflight>>

\* the months of the series: the current month and the one before it
ReportMonths == {0, 1}

RECURSIVE SumTotalAmount(_)
SumTotalAmount(S) ==
    IF S = {} THEN 0
    ELSE LET d == CHOOSE x \in S : TRUE
         IN deposits[d].totalAmount + SumTotalAmount(S \ {d})

ApprovedSince(startMonth) ==
    {d \in DepositIds : /\ Exists(d) /\ deposits[d].status = "APPROVED"
                          /\ MonthOf(deposits[d].depositMonth) >= startMonth}

\* deposit.groupBy({ by: ['depositMonth'], _sum: { totalAmount } }): one
\* group per stored depositMonth value, keyed here by that value
depositsByMonth(startMonth) ==
    [t \in {deposits[d].depositMonth : d \in ApprovedSince(startMonth)} |->
        SumTotalAmount({d \in ApprovedSince(startMonth) : deposits[d].depositMonth = t})]

\* new Map(depositsByMonth.map(d => [getMonthKey(d.depositMonth), ...])):
\* of the groups with one month key the one that comes last in the result
\* of groupBy stays, and groupBy is called without orderBy
getMonthlyCollections ==
    \E adminMemberId \in Admins :
        LET groups == depositsByMonth(0)
            keysOf(mo) == {t \in DOMAIN groups : MonthOf(t) = mo}
        IN \E kept \in [ReportMonths -> DOMAIN groups \cup {Undefined}] :
              /\ \A mo \in ReportMonths :
                     IF keysOf(mo) = {} THEN kept[mo] = Undefined
                     ELSE kept[mo] \in keysOf(mo)
              /\ last' = [Outcome("getMonthlyCollections", "ok", 0, adminMemberId)
                             EXCEPT !.data =
                                 [amount |-> [mo \in ReportMonths |->
                                     IF kept[mo] = Undefined THEN 0
                                     ELSE groups[kept[mo]]]]]
              /\ UNCHANGED <<db, inflight>>

-----------------------------------------------------------------------------
(* AuthService: refresh tokens.  A RefreshToken row belongs to one user and *)
(* carries revoked and expiresAt; the token string itself is a JWT with its *)
(* own expiry.  Both expiries are counted from the moment of issue, the     *)
(* JWT's in whole seconds and the row's in calendar days, so either can     *)
(* pass first.                                                              *)

\* a string that was not signed with JWT_REFRESH_SECRET
ForgedToken == 0
PresentedTokens == TokenIds \cup {ForgedToken}

\* the row refreshToken.create stores for a freshly signed token
NewRefreshToken(userId) ==
    [userId |-> userId, revoked |-> FALSE, jwtExpired |-> FALSE, expired |-> FALSE]

\* refreshToken.updateMany({ where: { userId, revoked: false } }, revoked: true)
RevokeAllOf(tokens, userId) ==
    [t \in TokenIds |->
        IF tokens[t] # NoToken /\ tokens[t].userId = userId
            THEN [tokens[t] EXCEPT !.revoked = TRUE]
            ELSE tokens[t]]

\* jwtService.verify with the refresh secret: the signature and the JWT's exp
verifyRefreshToken(token) ==
    /\ token # ForgedToken
    /\ refreshTokens[token] # NoToken => ~refreshTokens[token].jwtExpired

\* login with a known member's login name: only an ACTIVE member with the
\* right password gets a token pair, and the refresh token is stored
login(users) ==
    \E userId \in users, isPasswordMatch \in BOOLEAN :
        IF userStatus[userId] # "ACTIVE" \/ ~isPasswordMatch
            THEN /\ last' = Outcome("login", "Unauthorized", 0, userId)
                 /\ UNCHANGED <<db, inflight>>
            ELSE \E token \in TokenIds :
                    /\ refreshTokens[token] = NoToken
                    /\ \A t \in TokenIds : t < token => refreshTokens[t] # NoToken
                    /\ refreshTokens' = [refreshTokens EXCEPT ![token] = NewRefreshToken(userId)]
                    /\ last' = Outcome("login", "ok", token, userId)
                    /\ UNCHANGED <<userStatus, deposits, details, memberStats, auditLog,
                                   nextId, inflight>>

\* the refresh token's JWT passes its exp
jwtExpires ==
    \E token \in TokenIds :
        /\ refreshTokens[token] # NoToken
        /\ ~refreshTokens[token].jwtExpired
        /\ refreshTokens' = [refreshTokens EXCEPT ![token].jwtExpired = TRUE]
        /\ UNCHANGED <<userStatus, deposits, details, memberStats, auditLog, nextId,
                       inflight, last>>

\* the clock passes the row's expiresAt
rowExpires ==
    \E token \in TokenIds :
        /\ refreshTokens[token] # NoToken
        /\ ~refreshTokens[token].expired
        /\ refreshTokens' = [refreshTokens EXCEPT ![token].expired = TRUE]
        /\ UNCHANGED <<userStatus, deposits, details, memberStats, auditLog, nextId,
                       inflight, last>>

\* refreshToken: the checks in the order of the code.  No member is deleted
\* here, so the row's user is always found and the NotFoundException for a
\* missing user is not thrown; the user's status is not looked at.
refreshTokenResult(token) ==
    IF ~verifyRefreshToken(token) THEN "Unauthorized"
    ELSE IF refreshTokens[token] = NoToken THEN "Unauthorized"
    ELSE IF refreshTokens[token].revoked THEN "Unauthorized"
    ELSE IF refreshTokens[token].expired THEN "Unauthorized"
    ELSE "ok"

\* an expired row is marked revoked before the exception is thrown
refreshToken ==
    \E token \in PresentedTokens :
        /\ refreshTokens' =
              IF /\ verifyRefreshToken(token)
                 /\ refreshTokens[token] # NoToken
                 /\ ~refreshTokens[token].revoked
                 /\ refreshTokens[token].expired
                  THEN [refreshTokens EXCEPT ![token].revoked = TRUE]
                  ELSE refreshTokens
        /\ last' = Outcome("refreshToken", refreshTokenResult(token), token, 0)
        /\ UNCHANGED <<userStatus, deposits, details, memberStats, auditLog, nextId,
                       inflight>>

\* revokeRefreshToken (logout)
revokeRefreshToken ==
    \E token \in PresentedTokens :
        IF token = ForgedToken \/ refreshTokens[token] = NoToken
            THEN /\ last' = Outcome("revokeRefreshToken", "NotFound", token, 0)
                 /\ UNCHANGED <<db, inflight>>
            ELSE /\ refreshTokens' = [refreshTokens EXCEPT ![token].revoked = TRUE]
                 /\ last' = Outcome("revokeRefreshToken", "ok", token, 0)
                 /\ UNCHANGED <<userStatus, deposits, details, memberStats, auditLog,
                                nextId, inflight>>

\* resetPassword with a reset token of userId: a used, expired or unknown
\* reset token is refused, a valid one revokes all the member's refresh
\* tokens in the transaction that sets the password
resetPassword(users) ==
    \E userId \in users, resetTokenValid \in BOOLEAN :
        /\ refreshTokens' = IF resetTokenValid THEN RevokeAllOf(refreshTokens, userId)
                                              ELSE refreshTokens
        /\ last' = Outcome("resetPassword",
                           IF resetTokenValid THEN "ok" ELSE "BadRequest", 0, userId)
        /\ UNCHANGED <<userStatus, deposits, details, memberStats, auditLog, nextId,
                       inflight>>

\* changePassword of the authenticated member
changePassword(users) ==
    \E userId \in users, isPasswordMatch \in BOOLEAN :
        /\ refreshTokens' = IF isPasswordMatch THEN RevokeAllOf(refreshTokens, userId)
                                              ELSE refreshTokens
        /\ last' = Outcome("changePassword",
                           IF isPasswordMatch THEN "ok" ELSE "BadRequest", 0, userId)
        /\ UNCHANGED <<userStatus, deposits, details, memberStats, auditLog, nextId,
                       inflight>>

\* AdminService.blockUser
blockUser(users) ==
    \E userId \in users :
        /\ userStatus' = [userStatus EXCEPT ![userId] = "BLOCKED"]
        /\ last' = Outcome("blockUser", "ok", userId, 0)
        /\ UNCHANGED <<deposits, details, memberStats, auditLog, nextId, refreshTokens,
                       inflight>>

\* The members of Init, nobody logged in yet: the admin's suspending,
\* blocking and activating of members next to their logging in, refreshing,
\* logging out and changing of passwords, and the passing of time.
NextTokens ==
    \/ login(Members)
    \/ refreshToken
    \/ revokeRefreshToken
    \/ resetPassword(Members)
    \/ changePassword(Members)
    \/ suspendUser(Members)
    \/ blockUser(Members)
    \/ activateUser(Members)
    \/ jwtExpires
    \/ rowExpires

SpecTokens == Init /\ [][NextTokens]_vars

----------------------------------------------------------------------------
(* The admin routes: @RequireAdmin() runs AdminGuard before the controller *)
(* method, which looks up the caller's memberId and calls the service.     *)

\* users with a staff role, next to the members
Staff == {8, 9}
Callers == Members \cup Staff

\* User.role
userRole(userId) ==
    CASE userId = 9 -> "ADMIN"
      [] userId = 8 -> "SUPER_ADMIN"
      [] OTHER -> "MEMBER"

\* fault: every stored user passes the guard
canActivateAnyUser(userId) ==
    IF userId \notin Callers THEN "Forbidden" ELSE "ok"

\* AdminGuard.canActivate, as the error it throws or "ok"
canActivate(userId) ==
    IF userId \notin Callers THEN "Forbidden"
    ELSE IF userRole(userId) # "ADMIN" /\ userRole(userId) # "SUPER_ADMIN" THEN "Forbidden"
    ELSE "ok"

\* PUT admin/deposit-requests/:id/approve
approveDepositRequestRoute(callers) ==
    \E userId \in callers, depositId \in DepositIds :
        LET guard == canActivate(userId) IN
        IF guard # "ok"
        THEN /\ last' = Outcome("approveDepositRequest", guard, depositId, userId)
             /\ UNCHANGED <<db, inflight>>
        ELSE approveDepositRequestCall(depositId, userId, NoFault)

\* PUT admin/deposit-requests/:id/reject
rejectDepositRequestRoute(callers) ==
    \E userId \in callers, depositId \in DepositIds, reason \in ReasonInputs :
        LET guard == canActivate(userId) IN
        IF guard # "ok"
        THEN /\ last' = Outcome("rejectDepositRequest", guard, depositId, userId)
             /\ UNCHANGED <<db, inflight>>
        ELSE rejectDepositRequestCall(depositId, userId, reason, NoFault)

----------------------------------------------------------------------------
(* Requests served one at a time: every handler runs from its first read   *)
(* to its last write before the next request starts.                      *)

Next ==
    \/ createDeposit(Members, CreateDtos)
    \/ updateDeposit(Members, UpdateDtos)
    \/ deleteDeposit(Members)
    \/ approveDepositRequest
    \/ rejectDepositRequest
    \/ approveUserRequest

Spec == Init /\ [][Next]_vars

(* The member's own operations, one at a time, over more months, amounts   *)
(* and payment dates.                                                      *)

NextLifecycle ==
    \/ createDeposit(LifecycleMembers, LifecycleCreateDtos)
    \/ updateDeposit(LifecycleMembers, LifecycleUpdateDtos)
    \/ deleteDeposit(LifecycleMembers)

SpecLifecycle == Init /\ [][NextLifecycle]_vars

(* The admin workflow with database calls and mail deliveries that fail,   *)
(* requests one at a time.                                                 *)

FaultCreateDtos ==
    [depositMonth : MonthInputs, depositAmount : {1500},
     paymentDate : PaymentDateInputs, paymentMethod : MethodInputs,
     details : {{"handToHand"}}]

approveDepositRequestInEnvironment ==
    \E adminMemberId \in Admins, depositId \in DepositIds, env \in ApproveEnvironments :
        approveDepositRequestCall(depositId, adminMemberId, env)

rejectDepositRequestInEnvironment ==
    \E adminMemberId \in Admins, depositId \in DepositIds, reason \in ReasonInputs,
       env \in RejectEnvironments :
        rejectDepositRequestCall(depositId, adminMemberId, reason, env)

NextFaults ==
    \/ createDeposit(LifecycleMembers, FaultCreateDtos)
    \/ deleteDeposit(LifecycleMembers)
    \/ approveDepositRequestInEnvironment
    \/ rejectDepositRequestInEnvironment

SpecFaults == Init /\ [][NextFaults]_vars

(* The member-registration workflow next to the admin's suspension and     *)
(* activation of members and the approval of deposits, with database calls *)
(* that fail, requests one at a time.  Members start in any status (the    *)
(* import service and the admin's member form store any MemberStatus).     *)

InitMembers ==
    /\ userStatus \in [Members -> MemberStatus]
    /\ deposits = [d \in DepositIds |-> NoDeposit]
    /\ details = [d \in DepositIds |-> {}]
    /\ memberStats = [m \in Members |-> NoRow]
    /\ auditLog = <<>>
    /\ nextId = 1
    /\ refreshTokens = [t \in TokenIds |-> NoToken]
    /\ inflight = [s \in Slots |-> Idle]
    /\ last = [op |-> "none", result |-> "none", dep |-> 0, caller |-> 0,
               mail |-> "none", data |-> NoDeposit]

approveUserRequestInEnvironment ==
    \E adminMemberId \in Admins, requestId \in Members, env \in ApproveUserEnvironments :
        approveUserRequestCall(requestId, adminMemberId, env)

rejectUserRequestInEnvironment ==
    \E adminMemberId \in Admins, requestId \in Members, reason \in ReasonInputs,
       env \in RejectUserEnvironments :
        /\ Len(auditLog) < MaxAuditLog
        /\ rejectUserRequestCall(requestId, adminMemberId, reason, env)

NextMembers ==
    \/ approveUserRequestInEnvironment
    \/ rejectUserRequestInEnvironment
    \/ suspendUser(Members)
    \/ activateUser(Members)
    \/ createDeposit(LifecycleMembers, FaultCreateDtos)
    \/ approveDepositRequest

SpecMembers == InitMembers /\ [][NextMembers]_vars

(* The reports next to the creation and approval of deposits and the       *)
(* approval of members, requests one at a time.                            *)

NextReports ==
    \/ createDeposit(Members, CreateDtos)
    \/ approveDepositRequest
    \/ approveUserRequest
    \/ getMemberOverview(Members)
    \/ getAllDepositRequests
    \/ getDepositRequestById
    \/ getMonthlyCollections

SpecReports == Init /\ [][NextReports]_vars

(* Who may do what: members of every status (the import service and the   *)
(* admin's member form store any MemberStatus) and callers of every role,  *)
(* requests one at a time.                                                 *)

AccessCreateDtos ==
    [depositMonth : {At(0, 1, 0)}, depositAmount : {1000},
     paymentDate : {At(0, 16, 1)}, paymentMethod : MethodInputs,
     details : DetailInputs]

AccessUpdateDtos ==
    [depositAmount : {1500, Undefined}, paymentDate : {Undefined},
     paymentMethod : {UndefinedMethod}, details : {{}}]

InitAccess ==
    /\ userStatus \in [Members -> MemberStatus]
    /\ userStatus[1] = "ACTIVE"
    /\ deposits = [d \in DepositIds |-> NoDeposit]
    /\ details = [d \in DepositIds |-> {}]
    /\ memberStats = [m \in Members |-> NoRow]
    /\ auditLog = <<>>
    /\ nextId = 1
    /\ refreshTokens = [t \in TokenIds |-> NoToken]
    /\ inflight = [s \in Slots |-> Idle]
    /\ last = [op |-> "none", result |-> "none", dep |-> 0, caller |-> 0,
               mail |-> "none", data |-> NoDeposit]

NextAccess ==
    \/ createDeposit(Members, AccessCreateDtos)
    \/ getDepositById(Members)
    \/ updateDeposit(Members, AccessUpdateDtos)
    \/ deleteDeposit(Members)
    \/ approveDepositRequestRoute(Callers)
    \/ rejectDepositRequestRoute(Callers)
    \/ approveUserRequest

SpecAccess == InitAccess /\ [][NextAccess]_vars

(* Requests served concurrently: a handler's read step and its transaction *)
(* are separate steps, and other requests' steps may come between them.    *)

NextConcurrent ==
    \/ createDepositRead(ConcurrentMembers, ConcurrentCreateDtos)
    \/ createDepositWrite
    \/ updateDepositRead(ConcurrentMembers, ConcurrentUpdateDtos)
    \/ updateDepositWrite
    \/ deleteDepositRead(ConcurrentMembers)
    \/ deleteDepositWrite
    \/ approveDepositRequestRead
    \/ approveDepositRequestWrite
    \/ rejectDepositRequestRead
    \/ rejectDepositRequestWrite

SpecConcurrent == Init /\ [][NextConcurrent]_vars

(* Concurrent createDeposit requests of one member, for target months given *)
(* as different instants of one calendar month or as the same instant.     *)

NextRacingCreates ==
    \/ createDepositRead(ConcurrentMembers, CreateDtos)
    \/ createDepositWrite
    \/ deleteDepositRead(ConcurrentMembers)
    \/ deleteDepositWrite

SpecRacingCreates == Init /\ [][NextRacingCreates]_vars

(* createDeposit and updateDeposit with every payment method kind and every *)
(* combination of detail payloads, served one at a time (SpecDetailsSerial) *)
(* and concurrently (SpecDetails).                                          *)

DetailMethods == {"HAND_TO_HAND", "BKASH", "NAGAD", "BANK_TRANSFER"}
DetailPayloads == SUBSET DetailKinds

DetailCreateDtos ==
    [depositMonth : MonthInputs, depositAmount : {1000},
     paymentDate : ConcurrentDates, paymentMethod : DetailMethods,
     details : DetailPayloads]

DetailUpdateDtos ==
    [depositAmount : {Undefined}, paymentDate : {Undefined},
     paymentMethod : DetailMethods \cup {UndefinedMethod},
     details : DetailPayloads]

\* one target month, so that the concurrent requests meet on one deposit
RacingDetailCreateDtos ==
    [depositMonth : ConcurrentMonths, depositAmount : {1000},
     paymentDate : ConcurrentDates, paymentMethod : DetailMethods,
     details : DetailPayloads]

NextDetailsSerial ==
    \/ createDeposit(ConcurrentMembers, DetailCreateDtos)
    \/ updateDeposit(ConcurrentMembers, DetailUpdateDtos)

SpecDetailsSerial == Init /\ [][NextDetailsSerial]_vars

NextDetails ==
    \/ createDepositRead(ConcurrentMembers, RacingDetailCreateDtos)
    \/ createDepositWrite
    \/ updateDepositRead(ConcurrentMembers, DetailUpdateDtos)
    \/ updateDepositWrite

SpecDetails == Init /\ [][NextDetails]_vars

----------------------------------------------------------------------------
(* Properties *)

\* day 16, 00:00:00 of the target month
PenaltyStartInstant(depositMonth) == At(MonthOf(depositMonth), 16, 0)

Late(d) == deposits[d].paymentDate > PenaltyStartInstant(deposits[d].depositMonth)

C2_NoPenaltyUntilStart ==
    \A d \in DepositIds :
        (Exists(d) /\ ~Late(d)) =>
            /\ deposits[d].penalty = 0
            /\ deposits[d].totalAmount = deposits[d].depositAmount

\* a deposit created with a payment date at the penalty start instant
C2_Witness ==
    \E d \in DepositIds :
        /\ Exists(d)
        /\ last = Outcome("createDeposit", "ok", d, deposits[d].memberId)
        /\ deposits[d].paymentDate = PenaltyStartInstant(deposits[d].depositMonth)
        /\ deposits[d].depositAmount = 1500
        /\ deposits[d].penalty = 0

\* C3 as stated: no two stored deposits have the same member and the same
\* calendar month as target month.
C3_OneDepositPerMonth ==
    \A d1, d2 \in DepositIds :
        (/\ Exists(d1) /\ Exists(d2)
         /\ deposits[d1].memberId = deposits[d2].memberId
         /\ MonthOf(deposits[d1].depositMonth) = MonthOf(deposits[d2].depositMonth))
            => d1 = d2

\* the ledger fields of a member, zero when the member has no row
StatsOrZero(stats) == IF stats = NoRow THEN ZeroStats ELSE stats

\* C4: a successful approveDepositRequest on a PENDING deposit adds the
\* deposit's depositAmount, penalty and totalAmount to the member's
\* totalDeposited, totalPenalties and totalContribution and 1 to
\* totalMonthsPaid and consecutiveMonths, sets lastDepositDate and
\* lastDepositMonth to the deposit's, creates the row (from zero) when the
\* member has none, and changes no other member's row.
C4_ApprovalLedgerDelta ==
    [][ (last'.op = "approveDepositRequest" /\ last'.result = "ok") =>
            LET d == last'.dep
                m == deposits[d].memberId
                old == StatsOrZero(memberStats[m])
                new == memberStats'[m]
            IN (Exists(d) /\ deposits[d].status = "PENDING") =>
                  /\ new # NoRow
                  /\ new.totalDeposited = old.totalDeposited + deposits[d].depositAmount
                  /\ new.totalPenalties = old.totalPenalties + deposits[d].penalty
                  /\ new.totalContribution = old.totalContribution + deposits[d].totalAmount
                  /\ new.totalMonthsPaid = old.totalMonthsPaid + 1
                  /\ new.consecutiveMonths = old.consecutiveMonths + 1
                  /\ new.lastDepositDate = deposits[d].paymentDate
                  /\ new.lastDepositMonth = deposits[d].depositMonth
                  /\ \A o \in Members \ {m} : memberStats'[o] = memberStats[o]
      ]_vars

\* a second deposit with a penalty has been approved into an existing row
C4_Witness ==
    \E d \in DepositIds :
        /\ Exists(d)
        /\ last.op = "approveDepositRequest" /\ last.result = "ok" /\ last.dep = d
        /\ deposits[d].penalty > 0
        /\ memberStats[deposits[d].memberId] # NoRow
        /\ memberStats[deposits[d].memberId].totalMonthsPaid = 2

\* the approvals recorded for a deposit
ApprovalsOf(d) ==
    Cardinality({i \in 1..Len(auditLog) :
                    /\ auditLog[i].action = "DEPOSIT_APPROVED"
                    /\ auditLog[i].entityId = d})

\* C5 as stated: however approvals of one deposit interleave, at most one of
\* them succeeds and the ledger counts each approved deposit once.
C5_AtMostOneApproval ==
    /\ \A d \in DepositIds : ApprovalsOf(d) <= 1
    /\ \A m \in Members :
          memberStats[m] # NoRow =>
              memberStats[m].totalMonthsPaid
                  <= Cardinality({d \in DepositIds : ApprovalsOf(d) >= 1})

\* the step is a call of approveDepositRequest or rejectDepositRequest on a
\* stored deposit of the given status
AdminCallOn(status) ==
    /\ last'.op \in {"approveDepositRequest", "rejectDepositRequest"}
    /\ Exists(last'.dep)
    /\ deposits[last'.dep].status = status

\* C6: approveDepositRequest and rejectDepositRequest on an APPROVED deposit
\* fail and leave the deposits, the ledger and the audit log as they were.
C6_ApprovedIsTerminal ==
    [][ AdminCallOn("APPROVED") =>
            /\ last'.result # "ok"
            /\ UNCHANGED <<deposits, memberStats, auditLog>>
      ]_vars

\* an approval has been refused on an approved deposit
C6_Witness ==
    /\ last.op = "approveDepositRequest" /\ last.result = "BadRequest"
    /\ Exists(last.dep)
    /\ deposits[last.dep].status = "APPROVED"
    /\ memberStats[deposits[last.dep].memberId] # NoRow

\* C7: approveDepositRequest and rejectDepositRequest on a REJECTED deposit
\* fail and leave the deposits, the ledger and the audit log as they were,
\* and no step changes a REJECTED deposit: it stays REJECTED with its reason.
C7_RejectedIsTerminal ==
    [][ /\ AdminCallOn("REJECTED") =>
            /\ last'.result # "ok"
            /\ UNCHANGED <<deposits, memberStats, auditLog>>
        /\ \A d \in DepositIds :
              (Exists(d) /\ deposits[d].status = "REJECTED") => deposits'[d] = deposits[d]
      ]_vars

\* an approval has been refused on a rejected deposit that keeps its reason
C7_Witness ==
    /\ last.op = "approveDepositRequest" /\ last.result = "BadRequest"
    /\ Exists(last.dep)
    /\ deposits[last.dep].status = "REJECTED"
    /\ deposits[last.dep].rejectionReason = "proof unclear"

\* C8: a call of rejectDepositRequest, successful or not, leaves every
\* ledger row as it was.
C8_RejectKeepsLedger ==
    [][ last'.op = "rejectDepositRequest" => memberStats' = memberStats ]_vars

\* a deposit of a member with a credited ledger row has been rejected
C8_Witness ==
    /\ last.op = "rejectDepositRequest" /\ last.result = "ok"
    /\ Exists(last.dep)
    /\ memberStats[deposits[last.dep].memberId] # NoRow
    /\ memberStats[deposits[last.dep].memberId].totalMonthsPaid = 1

\* C9: a successful rejectDepositRequest on a PENDING deposit leaves it
\* REJECTED with the supplied reason and appends exactly one audit entry, of
\* kind rejected, for that deposit, with the same reason and the acting admin.
C9_RejectionRecorded ==
    [][ (/\ last'.op = "rejectDepositRequest" /\ last'.result = "ok"
         /\ Exists(last'.dep) /\ deposits[last'.dep].status = "PENDING") =>
            LET d == last'.dep IN
            /\ deposits'[d].status = "REJECTED"
            /\ deposits'[d].rejectionReason \in ReasonInputs
            /\ Len(auditLog') = Len(auditLog) + 1
            /\ SubSeq(auditLog', 1, Len(auditLog)) = auditLog
            /\ auditLog'[Len(auditLog')].action = "DEPOSIT_REJECTED"
            /\ auditLog'[Len(auditLog')].entityType = "Deposit"
            /\ auditLog'[Len(auditLog')].entityId = d
            /\ auditLog'[Len(auditLog')].rejectionReason = deposits'[d].rejectionReason
            /\ auditLog'[Len(auditLog')].performedBy = last'.caller
      ]_vars

\* a rejection has just been recorded
C9_Witness ==
    /\ last.op = "rejectDepositRequest" /\ last.result = "ok"
    /\ Exists(last.dep)
    /\ deposits[last.dep].status = "REJECTED"
    /\ deposits[last.dep].rejectionReason = "proof unclear"
    /\ Len(auditLog) > 0
    /\ auditLog[Len(auditLog)].action = "DEPOSIT_REJECTED"
    /\ auditLog[Len(auditLog)].rejectionReason = "proof unclear"

\* C10: updateDeposit and deleteDeposit on a stored deposit that is not
\* PENDING fail and leave every deposit row and detail row as it was.
C10_OnlyPendingIsEditable ==
    [][ (/\ last'.op \in {"updateDeposit", "deleteDeposit"}
         /\ Exists(last'.dep)
         /\ deposits[last'.dep].status # "PENDING") =>
            /\ last'.result # "ok"
            /\ UNCHANGED <<deposits, details>>
      ]_vars

\* the owner's delete of a rejected deposit has been refused
C10_Witness ==
    /\ last.op = "deleteDeposit" /\ last.result = "BadRequest"
    /\ Exists(last.dep)
    /\ deposits[last.dep].status = "REJECTED"
    /\ last.caller = deposits[last.dep].memberId

\* C11: createDeposit by a member whose status is not ACTIVE fails with
\* Forbidden and stores no deposit row and no detail row; a deposit that
\* createDeposit stores is new and has status PENDING.
C11_OnlyActiveMembersCreate ==
    [][ /\ (last'.op = "createDeposit" /\ userStatus[last'.caller] # "ACTIVE") =>
            /\ last'.result = "Forbidden"
            /\ UNCHANGED <<deposits, details>>
        /\ (last'.op = "createDeposit" /\ last'.result = "ok") =>
            /\ ~Exists(last'.dep)
            /\ deposits'[last'.dep] # NoDeposit
            /\ deposits'[last'.dep].status = "PENDING"
            /\ deposits'[last'.dep].memberId = last'.caller
      ]_vars

\* a blocked member has been refused while another member has a deposit
C11_Witness ==
    /\ last.op = "createDeposit" /\ last.result = "Forbidden"
    /\ userStatus[last.caller] = "BLOCKED"
    /\ \E d \in DepositIds : Exists(d) /\ deposits[d].status = "PENDING"

\* the step is a call of the handler on a stored deposit of another member
NonOwnerCall(op) ==
    /\ last'.op = op
    /\ Exists(last'.dep)
    /\ deposits[last'.dep].memberId # last'.caller

\* C12: getDepositById, updateDeposit and deleteDeposit called by a user who
\* is not the owner of the stored deposit fail with Forbidden, return no
\* deposit data and leave every deposit row and detail row as it was.
C12_OnlyOwnerAccess ==
    [][ (NonOwnerCall("getDepositById") \/ NonOwnerCall("updateDeposit")
            \/ NonOwnerCall("deleteDeposit")) =>
            /\ last'.result = "Forbidden"
            /\ last'.data = NoDeposit
            /\ UNCHANGED <<deposits, details>>
      ]_vars

\* an active member has been refused the pending deposit of another member
C12_Witness ==
    /\ last.op = "getDepositById" /\ last.result = "Forbidden"
    /\ Exists(last.dep)
    /\ deposits[last.dep].memberId # last.caller
    /\ deposits[last.dep].status = "PENDING"
    /\ userStatus[last.caller] = "ACTIVE"
    /\ last.data = NoDeposit

\* C18: an approve or reject request by a caller whose stored role is
\* neither ADMIN nor SUPER_ADMIN is refused with Forbidden and changes no
\* deposit, ledger row or audit entry.
C18_AdminOnly ==
    [][ (/\ last'.op \in {"approveDepositRequest", "rejectDepositRequest"}
         /\ userRole(last'.caller) \notin {"ADMIN", "SUPER_ADMIN"}) =>
            /\ last'.result = "Forbidden"
            /\ UNCHANGED <<deposits, memberStats, auditLog>>
      ]_vars

\* a member has been refused the approval of a pending deposit
C18_Witness ==
    /\ last.op = "approveDepositRequest" /\ last.result = "Forbidden"
    /\ userRole(last.caller) = "MEMBER"
    /\ Exists(last.dep)
    /\ deposits[last.dep].status = "PENDING"

\* C13: when a database call of the approval transaction fails, the deposit
\* is still PENDING, the ledger is unchanged and no approval audit entry
\* has been added; when a database call of the rejection transaction
\* fails, the deposit and the audit log are unchanged.  A successful
\* approval or rejection makes all of its writes.
C13_AllOrNothing ==
    [][ (/\ last'.op \in {"approveDepositRequest", "rejectDepositRequest"}
         /\ Exists(last'.dep)
         /\ deposits[last'.dep].status = "PENDING") =>
            \/ /\ last'.result # "ok"
               /\ deposits'[last'.dep].status = "PENDING"
               /\ UNCHANGED <<deposits, memberStats, auditLog>>
            \/ /\ last'.result = "ok"
               /\ deposits'[last'.dep].status # "PENDING"
               /\ Len(auditLog') = Len(auditLog) + 1
               /\ auditLog'[Len(auditLog')].entityId = last'.dep
               /\ (last'.op = "approveDepositRequest") =
                      (memberStats' # memberStats)
      ]_vars

\* a database call of an approval has failed: the deposit is pending, its
\* member has no ledger row and the log has no entry
C13_Witness ==
    /\ last.op = "approveDepositRequest" /\ last.result = "InternalServerError"
    /\ Exists(last.dep)
    /\ deposits[last.dep].status = "PENDING"
    /\ memberStats[deposits[last.dep].memberId] = NoRow
    /\ auditLog = <<>>

\* C14: when the notification mail of an approval or a rejection fails, the
\* call returns success and the deposit's new status, the ledger update and
\* the audit entry stay committed.
C14_MailFailureIsolated ==
    [][ (/\ last'.op \in {"approveDepositRequest", "rejectDepositRequest"}
         /\ last'.mail = "failed") =>
            /\ last'.result = "ok"
            /\ Exists(last'.dep)
            /\ deposits'[last'.dep].status =
                  (IF last'.op = "approveDepositRequest" THEN "APPROVED" ELSE "REJECTED")
            /\ Len(auditLog') = Len(auditLog) + 1
            /\ auditLog'[Len(auditLog')].entityId = last'.dep
            /\ (last'.op = "approveDepositRequest") =>
                  /\ memberStats'[deposits[last'.dep].memberId] # NoRow
                  /\ memberStats'[deposits[last'.dep].memberId]
                        # memberStats[deposits[last'.dep].memberId]
      ]_vars

\* an approval has been committed although its mail failed
C14_Witness ==
    /\ last.op = "approveDepositRequest" /\ last.result = "ok" /\ last.mail = "failed"
    /\ Exists(last.dep)
    /\ deposits[last.dep].status = "APPROVED"
    /\ memberStats[deposits[last.dep].memberId] # NoRow
    /\ Len(auditLog) > 0
    /\ auditLog[Len(auditLog)].action = "DEPOSIT_APPROVED"

\* C15: in every reachable state every ledger row has totalContribution =
\* totalDeposited + totalPenalties.  It holds while each request runs to
\* completion before the next starts (Spec); two updateDeposit requests
\* that both read the row before either writes it (SpecConcurrent) leave a
\* deposit whose totalAmount is not depositAmount + penalty, and approving
\* that deposit breaks the equality in the ledger.
C15_ContributionIsSum ==
    \A m \in Members :
        memberStats[m] # NoRow =>
            memberStats[m].totalContribution
                = memberStats[m].totalDeposited + memberStats[m].totalPenalties

\* the stored deposits of the calendar month of depositMonth of a member
InMonth(memberId, depositMonth) ==
    {d \in DepositIds : Exists(d) /\ deposits[d].memberId = memberId
                          /\ MonthOf(deposits[d].depositMonth) = MonthOf(depositMonth)}

\* the transaction of the createDeposit request in slot s runs in this step
CreateCommits(s) ==
    /\ inflight[s].op = "createDeposit"
    /\ inflight'[s] = Idle
    /\ last'.op = "createDeposit"

\* C16 as stated: of createDeposit requests of one member for one calendar
\* month that have all passed the existence check, the first transaction
\* to run succeeds and every later one fails with a conflict and leaves no
\* deposit and no detail row, so that at most one row results.
C16_RacingCreatesOneRow ==
    [][\A s \in Slots :
          CreateCommits(s) =>
              IF InMonth(inflight[s].row.memberId, inflight[s].row.depositMonth) = {}
              THEN last'.result = "ok"
              ELSE /\ last'.result = "Conflict"
                   /\ deposits' = deposits
                   /\ details' = details]_vars

\* the same for requests that give the target month as the same instant:
\* the unique index on (memberId, depositMonth) decides the race
C16_RacingCreatesSameInstant ==
    [][\A s \in Slots :
          CreateCommits(s) =>
              IF ByKey(inflight[s].row.memberId, inflight[s].row.depositMonth) = {}
              THEN last'.result = "ok"
              ELSE /\ last'.result = "Conflict"
                   /\ deposits' = deposits
                   /\ details' = details]_vars

\* a request loses the race: its transaction runs when the row of the same
\* instant is already stored
C16_LostRace ==
    /\ last.op = "createDeposit" /\ last.result = "Conflict"
    /\ ByKey(last.caller, At(0, 1, 0)) # {}

\* the error kinds reported, in the current state, for a createDeposit of an
\* active member for a target month already taken, for an approval of an
\* APPROVED deposit and for a rejection of a REJECTED deposit
DuplicateCreateKinds ==
    {HandleError(createDepositCheck(dto, u)) :
        <<u, dto>> \in {x \in Members \X CreateDtos :
                            /\ validateUserStatus(x[1])
                            /\ ByKey(x[1], x[2].depositMonth) # {}}}

SecondApprovalKinds ==
    {HandleError(approveDepositCheck(d)) :
        d \in {x \in DepositIds : Exists(x) /\ deposits[x].status = "APPROVED"}}

SecondRejectionKinds ==
    {HandleError(rejectDepositCheck(d)) :
        d \in {x \in DepositIds : Exists(x) /\ deposits[x].status = "REJECTED"}}

\* the error kind reported for a createDeposit of an active member for a free
\* target month without the detail payload of its payment method
MissingDetailKinds ==
    {HandleError(createDepositCheck(dto, u)) :
        <<u, dto>> \in {x \in Members \X CreateDtos :
                            /\ validateUserStatus(x[1])
                            /\ ByKey(x[1], x[2].depositMonth) = {}
                            /\ ~validatePaymentMethodDetails(x[2].paymentMethod, x[2].details)}}

\* C17 as stated: a duplicate-month createDeposit, a second approval and a
\* second rejection are reported with the conflict error kind, and not with
\* the kind reported for a missing payment-method detail payload.
C17_ConflictKind ==
    LET kinds == DuplicateCreateKinds \cup SecondApprovalKinds \cup SecondRejectionKinds
    IN /\ kinds \subseteq {"Conflict"}
       /\ kinds \cap MissingDetailKinds = {}

C20_OneMatchingDetail ==
    \A d \in DepositIds :
        Exists(d) => details[d] = {DetailKindOf(deposits[d].paymentMethod)}

\* an update has replaced a hand-to-hand deposit's detail row by the row of
\* its new method
C20_MethodChanged ==
    /\ last.op = "updateDeposit" /\ last.result = "ok"
    /\ Exists(last.dep)
    /\ deposits[last.dep].paymentMethod = "BANK_TRANSFER"
    /\ details[last.dep] = {"bankTransfer"}

\* C21: a successful updateDeposit that changes the base amount or the
\* payment date stores the penalty of (target month, resulting payment date,
\* resulting base amount) and totalAmount = depositAmount + penalty, and no
\* updateDeposit changes the target month of a deposit.
C21_UpdateRecomputesPenalty ==
    [][last'.op = "updateDeposit" =>
          \A d \in DepositIds :
              Exists(d) =>
                  /\ Exists(d)'
                  /\ deposits'[d].depositMonth = deposits[d].depositMonth
                  /\ (/\ last'.result = "ok" /\ last'.dep = d
                      /\ \/ deposits'[d].depositAmount # deposits[d].depositAmount
                         \/ deposits'[d].paymentDate # deposits[d].paymentDate)
                     => /\ deposits'[d].penalty
                              = calculatePenalty(deposits[d].depositMonth,
                                                 deposits'[d].paymentDate,
                                                 deposits'[d].depositAmount)
                        /\ deposits'[d].totalAmount
                              = deposits'[d].depositAmount + deposits'[d].penalty]_vars

\* an update has left a deposit of the first month with the largest amount,
\* paid in the following month, and the penalty of that amount
C21_Witness ==
    /\ last.op = "updateDeposit" /\ last.result = "ok"
    /\ Exists(last.dep)
    /\ deposits[last.dep].depositMonth = At(0, 1, 0)
    /\ deposits[last.dep].paymentDate = At(1, 16, 1)
    /\ deposits[last.dep].depositAmount = 8300
    /\ deposits[last.dep].penalty = 250
    /\ deposits[last.dep].totalAmount = 8550

\* C23 as stated: approveUserRequest and rejectUserRequest on a member whose
\* status is not PENDING fail and leave every member's status unchanged.
C23_OnlyPendingIsDecided ==
    [][(/\ last'.op \in {"approveUserRequest", "rejectUserRequest"}
        /\ userStatus[last'.dep] # "PENDING")
           => /\ last'.result # "ok"
              /\ userStatus' = userStatus]_vars

\* C24: a successful approveUserRequest sets the member ACTIVE and leaves
\* the member's ledger row as it was or, when there was none, creates it
\* with every total and counter zero; a failed one changes neither.
C24_ApprovalOpensLedger ==
    [][last'.op = "approveUserRequest" =>
          LET m == last'.dep IN
          IF last'.result = "ok"
          THEN /\ userStatus'[m] = "ACTIVE"
               /\ memberStats'[m] # NoRow
               /\ IF memberStats[m] # NoRow
                  THEN memberStats'[m] = memberStats[m]
                  ELSE /\ memberStats'[m].totalDeposited = 0
                       /\ memberStats'[m].totalPenalties = 0
                       /\ memberStats'[m].totalContribution = 0
                       /\ memberStats'[m].totalMonthsPaid = 0
                       /\ memberStats'[m].consecutiveMonths = 0
                       /\ memberStats'[m].missedMonths = 0
               /\ \A o \in Members \ {m} :
                      userStatus'[o] = userStatus[o] /\ memberStats'[o] = memberStats[o]
          ELSE userStatus' = userStatus /\ memberStats' = memberStats]_vars

\* a member whose ledger row holds an approved deposit has been approved
\* again after a suspension, and the row still holds the deposit
C24_Witness ==
    /\ last.op = "approveUserRequest" /\ last.result = "ok"
    /\ userStatus[last.dep] = "ACTIVE"
    /\ memberStats[last.dep] # NoRow
    /\ memberStats[last.dep].totalMonthsPaid = 1
    /\ memberStats[last.dep].totalDeposited = 1500

\* C25 as stated: a successful member approval or rejection appends one
\* audit entry naming the action, the member and the acting admin.
C25_MemberDecisionAudited ==
    [][(/\ last'.op \in {"approveUserRequest", "rejectUserRequest"}
        /\ last'.result = "ok")
           => /\ Len(auditLog') = Len(auditLog) + 1
              /\ SubSeq(auditLog', 1, Len(auditLog)) = auditLog
              /\ auditLog'[Len(auditLog')].entityType = "User"
              /\ auditLog'[Len(auditLog')].entityId = last'.dep
              /\ auditLog'[Len(auditLog')].performedBy = last'.caller
              /\ auditLog'[Len(auditLog')].action
                    = IF last'.op = "approveUserRequest"
                      THEN "USER_APPROVED" ELSE "USER_REJECTED"]_vars

\* the part of C25 about rejections alone
C25_MemberRejectionAudited ==
    [][(last'.op = "rejectUserRequest" /\ last'.result = "ok")
           => /\ Len(auditLog') = Len(auditLog) + 1
              /\ auditLog'[Len(auditLog')]
                    = AuditEntry("USER_REJECTED", "User", last'.dep, last'.caller,
                                 auditLog'[Len(auditLog')].rejectionReason)]_vars

\* C22: in every reachable state a deposit that is APPROVED carries its
\* approver and approval time and has exactly one audit entry of kind
\* approved, and a deposit that is not APPROVED has none.  It holds while
\* each request runs to completion before the next starts (Spec); approvals
\* and rejections of one deposit that overlap (SpecConcurrent) break it.
C22_ApprovedIsStampedAndAudited ==
    \A d \in DepositIds :
        Exists(d) =>
            IF deposits[d].status = "APPROVED"
            THEN /\ deposits[d].approvedBy \in Admins
                 /\ deposits[d].approvedAt # "null"
                 /\ ApprovalsOf(d) = 1
            ELSE ApprovalsOf(d) = 0

\* C26 as stated: the amount reported for a month of the series is the sum
\* of totalAmount over the APPROVED deposits, of all members, whose target
\* month is an instant of that calendar month, and 0 when there are none.
C26_MonthlyCollectionIsSum ==
    [][(last'.op = "getMonthlyCollections" /\ last'.result = "ok") =>
          \A mo \in ReportMonths :
              last'.data.amount[mo]
                  = SumTotalAmount({d \in DepositIds :
                                       /\ Exists(d)
                                       /\ deposits[d].status = "APPROVED"
                                       /\ MonthOf(deposits[d].depositMonth) = mo})]_vars

\* the days between the penalty start instant and the payment, rounded up
DaysLate(d) ==
    IF Late(d)
    THEN CeilDiv(deposits[d].paymentDate - PenaltyStartInstant(deposits[d].depositMonth),
                 TicksPerDay)
    ELSE 0

\* C27 as stated: every daysLate the member overview and the admin
\* deposit-request views report for a deposit is the number of days, rounded
\* up, from day 16, 00:00 of its target month to its payment date, and 0 for
\* a payment up to that instant.
C27_DaysLateIsCeiling ==
    [][(/\ last'.op \in {"getMemberOverview", "getAllDepositRequests",
                         "getDepositRequestById"}
        /\ last'.result = "ok")
           => \A d \in DOMAIN last'.data.daysLate :
                 last'.data.daysLate[d] = DaysLate(d)]_vars

\* the sum of a column over a set of stored deposits
RECURSIVE SumColumn(_, _)
SumColumn(column, S) ==
    IF S = {} THEN 0
    ELSE LET d == CHOOSE x \in S : TRUE
         IN deposits[d][column] + SumColumn(column, S \ {d})

\* C28 as stated: under any interleaving of the member's and the admin's
\* deposit requests, each member's ledger totals are the sums of
\* depositAmount, penalty and totalAmount over the member's stored APPROVED
\* deposits and totalMonthsPaid is their number.
C28_LedgerIsSumOfApproved ==
    \A m \in Members :
        LET row == StatsOrZero(memberStats[m])
            approved == ApprovedOf(m)
        IN /\ row.totalDeposited = SumColumn("depositAmount", approved)
           /\ row.totalPenalties = SumColumn("penalty", approved)
           /\ row.totalContribution = SumColumn("totalAmount", approved)
           /\ row.totalMonthsPaid = Cardinality(approved)

\* the part of C28 about approved deposits: no updateDeposit or
\* deleteDeposit transaction changes or removes a deposit that is APPROVED
C28_ApprovedUntouchedByMember ==
    [][last'.op \in {"updateDeposit", "deleteDeposit"} =>
          \A d \in DepositIds :
              (Exists(d) /\ deposits[d].status = "APPROVED")
                  => deposits'[d] = deposits[d]]_vars

\* the part of C28 about stale amounts: a committed approval credits the
\* amounts the deposit has when the approval commits
C28_ApprovalCreditsCurrentAmounts ==
    [][(last'.op = "approveDepositRequest" /\ last'.result = "ok") =>
          LET d == last'.dep
              m == deposits[d].memberId
          IN StatsOrZero(memberStats'[m]).totalContribution
                 = StatsOrZero(memberStats[m]).totalContribution + deposits[d].totalAmount]_vars

\* the rejections recorded for a deposit
RejectionsOf(d) ==
    Cardinality({i \in 1..Len(auditLog) :
                    /\ auditLog[i].action = "DEPOSIT_REJECTED"
                    /\ auditLog[i].entityId = d})

\* C29 as stated: of an approval and a rejection of one PENDING deposit that
\* run concurrently only one takes effect: no deposit has both an approved
\* and a rejected audit entry, and no REJECTED deposit has had its approval
\* transaction, which adds its amounts to the ledger, committed.
C29_ApproveOrRejectNotBoth ==
    \A d \in DepositIds :
        /\ ApprovalsOf(d) = 0 \/ RejectionsOf(d) = 0
        /\ (Exists(d) /\ deposits[d].status = "REJECTED")
              => /\ ApprovalsOf(d) = 0
                 /\ StatsOrZero(memberStats[deposits[d].memberId]).totalMonthsPaid
                       <= Cardinality(ApprovedOf(deposits[d].memberId))


\* C30: refreshToken issues a new access token only for a refresh token that
\* is stored, not revoked and not expired and whose member is ACTIVE at the
\* time of the call; so no call succeeds with a revoked token or with the
\* token of a member who has been suspended or blocked.  (The passing of
\* time leaves last alone, so a step that changes last is a call.)
C30_RefreshOnlyForActiveMember ==
    [][(last' # last /\ last'.op = "refreshToken" /\ last'.result = "ok") =>
          /\ last'.dep \in TokenIds
          /\ refreshTokens[last'.dep] # NoToken
          /\ ~refreshTokens[last'.dep].revoked
          /\ ~refreshTokens[last'.dep].expired
          /\ userStatus[refreshTokens[last'.dep].userId] = "ACTIVE"]_vars

\* the part of C30 that is about the token alone: a forged, unknown, revoked
\* or expired refresh token is always refused
C30_RevokedOrExpiredRefused ==
    [][(last' # last /\ last'.op = "refreshToken" /\ last'.result = "ok") =>
          /\ last'.dep \in TokenIds
          /\ refreshTokens[last'.dep] # NoToken
          /\ ~refreshTokens[last'.dep].revoked
          /\ ~refreshTokens[last'.dep].expired]_vars

\* a member who logged in and was suspended or blocked afterwards refreshes
\* successfully
C30_SuspendedMemberRefreshed ==
    /\ last.op = "refreshToken"
    /\ last.result = "ok"
    /\ refreshTokens[last.dep].userId = 1
    /\ userStatus[1] \in {"SUSPENDED", "BLOCKED"}

====
